---- MODULE Spec2Model ----
(***************************************************************************)
(* A model of extract_json_from_bgl.py: the four nested scans of           *)
(* process_bgl_file over the bytes of one archive, and the JSON decoder    *)
(* extract_json_from_glb.  Bytes are the integers 0..255; a buffer is a    *)
(* sequence of bytes, so the byte at Python offset o is buf[o + 1].        *)
(***************************************************************************)
EXTENDS Integers, Sequences, FiniteSets, TLC

(***************************************************************************)
(* Program constants.                                                      *)
(***************************************************************************)
HeaderSize == 56
RecordCountOffset == 20
RecordStride == 20
ModelDataType == 43
ModelHeaderCheck == 12
EntryStride == 24
GlbHeaderSize == 20
JsonLengthOffset == 12
FirstPrintable == 32
LastPrintable == 126

Magic1 == <<1, 2, 146, 25>>
Magic2 == <<3, 24, 5, 8>>
RIFF == <<82, 73, 70, 70>>
GLBD == <<71, 76, 66, 68>>
GLBSig == <<71, 76, 66, 0>>

Min(a, b) == IF a < b THEN a ELSE b

(***************************************************************************)
(* Python's buf[a:b] for 0 <= a: the slice is cut at the end of the buffer.*)
(***************************************************************************)
Slice(buf, a, b) ==
  IF a >= Min(b, Len(buf)) THEN <<>> ELSE SubSeq(buf, a + 1, Min(b, Len(buf)))

(***************************************************************************)
(* read_uint32: struct.unpack("<I", data[offset:offset+4]).  The slice is  *)
(* shorter than 4 bytes when offset + 4 > len(data), and struct.unpack     *)
(* then raises struct.error: CanRead says the read returns a value.        *)
(***************************************************************************)
CanRead(buf, off) == Len(Slice(buf, off, off + 4)) = 4

read_uint32(buf, off) ==
  buf[off + 1] + 256 * buf[off + 2] + 65536 * buf[off + 3] + 16777216 * buf[off + 4]

\* a slip of "and" to "or": one matching magic sequence is enough
validate_bgl_header_either(buf) ==
  Slice(buf, 0, 4) = Magic1 \/ Slice(buf, 16, 20) = Magic2

validate_bgl_header(buf) ==
  Slice(buf, 0, 4) = Magic1 /\ Slice(buf, 16, 20) = Magic2

(***************************************************************************)
(* clean_json_string: every byte outside 0x20..0x7E becomes a space.       *)
(***************************************************************************)
clean_json_string(bytes) ==
  [k \in 1..Len(bytes) |->
     IF bytes[k] < FirstPrintable \/ bytes[k] > LastPrintable THEN 32 ELSE bytes[k]]

(***************************************************************************)
(* str.strip() on the cleaned text, whose only whitespace is the space.    *)
(***************************************************************************)
RECURSIVE LStrip(_)
LStrip(s) == IF s # <<>> /\ Head(s) = 32 THEN LStrip(Tail(s)) ELSE s

RECURSIVE RStrip(_)
RStrip(s) ==
  IF s # <<>> /\ s[Len(s)] = 32 THEN RStrip(SubSeq(s, 1, Len(s) - 1)) ELSE s

Strip(text) == CHOOSE r \in {RStrip(LStrip(s)) : s \in {text}} : TRUE

(***************************************************************************)
(* json.loads on printable ASCII text, for the JSON of objects, strings    *)
(* without escapes and unsigned integers; any other text is a parse error. *)
(* A value is a record with a tag t: an object maps its keys to its        *)
(* member values (a later duplicate key wins, as in a dict).               *)
(***************************************************************************)
JNone == [t |-> "none"]
JInt(n) == [t |-> "int", n |-> n]
JStr(s) == [t |-> "str", s |-> s]
JObj(m) == [t |-> "obj", m |-> m]
PFail == [ok |-> FALSE, val |-> JNone, pos |-> 0]
POk(v, p) == [ok |-> TRUE, val |-> v, pos |-> p]

IsDigit(c) == c >= 48 /\ c <= 57

RECURSIVE SkipWs(_, _)
SkipWs(s, p) == IF p <= Len(s) /\ s[p] = 32 THEN SkipWs(s, p + 1) ELSE p

RECURSIVE StringEnd(_, _)
\* the index of the quote closing a string whose text starts at p; 0 if none
StringEnd(s, p) ==
  IF p > Len(s) \/ s[p] = 92 THEN 0
  ELSE IF s[p] = 34 THEN p
  ELSE StringEnd(s, p + 1)

ParseString(s, p) ==
  IF p > Len(s) \/ s[p] # 34 THEN PFail
  ELSE LET q == StringEnd(s, p + 1)
       IN  IF q = 0 THEN PFail ELSE POk(JStr(SubSeq(s, p + 1, q - 1)), q + 1)

RECURSIVE DigitsEnd(_, _)
DigitsEnd(s, p) == IF p <= Len(s) /\ IsDigit(s[p]) THEN DigitsEnd(s, p + 1) ELSE p

RECURSIVE DigitsValue(_, _, _)
DigitsValue(s, p, q) ==
  IF q < p THEN 0 ELSE 10 * DigitsValue(s, p, q - 1) + (s[q] - 48)

ParseInt(s, p) ==
  IF s[p] = 48 THEN POk(JInt(0), p + 1)
  ELSE LET q == DigitsEnd(s, p) IN POk(JInt(DigitsValue(s, p, q - 1)), q)

RECURSIVE ParseValue(_, _)
RECURSIVE ParseMembers(_, _, _)

\* Each intermediate result below is bound once, as the one element of a set.

\* after a member's value v: "}" ends the object, "," starts the next member
AfterValue(s, e, m) ==
  IF e > Len(s) THEN PFail
  ELSE IF s[e] = 125 THEN POk(JObj(m), e + 1)
  ELSE IF s[e] = 44 THEN ParseMembers(s, SkipWs(s, e + 1), m)
  ELSE PFail

\* after a member's key k and the position c of the text behind it
AfterKey(s, k, c, m) ==
  IF c > Len(s) \/ s[c] # 58 THEN PFail
  ELSE CHOOSE r \in
         {IF ~v.ok THEN PFail
          ELSE AfterValue(s, SkipWs(s, v.pos), (k.val.s :> v.val) @@ m) :
            v \in {ParseValue(s, SkipWs(s, c + 1))}} : TRUE

\* members of an object from the key at p on; m holds the members read so far
ParseMembers(s, p, m) ==
  CHOOSE r \in
    {IF ~k.ok THEN PFail
     ELSE CHOOSE r2 \in {AfterKey(s, k, c, m) : c \in {SkipWs(s, k.pos)}} : TRUE :
       k \in {ParseString(s, p)}} : TRUE

ObjectFrom(s, q) ==
  IF q <= Len(s) /\ s[q] = 125 THEN POk(JObj(<<>>), q + 1)
  ELSE ParseMembers(s, q, <<>>)

ParseValue(s, p) ==
  IF p > Len(s) THEN PFail
  ELSE IF s[p] = 34 THEN ParseString(s, p)
  ELSE IF IsDigit(s[p]) THEN ParseInt(s, p)
  ELSE IF s[p] = 123 THEN
         CHOOSE r \in {ObjectFrom(s, q) : q \in {SkipWs(s, p + 1)}} : TRUE
  ELSE PFail

Loads(s) ==
  CHOOSE v \in
    {IF r.ok /\ SkipWs(s, r.pos) > Len(s) THEN r.val ELSE JNone :
       r \in {ParseValue(s, SkipWs(s, 1))}} : TRUE

\* json.loads(text): one value, then only whitespace; JNone for a parse error
json_loads(text) == CHOOSE v \in {Loads(s) : s \in {text}} : TRUE

(***************************************************************************)
(* extract_json_from_glb: the decoded value, or JNone where the code       *)
(* returns None.  The length field at 0x0C is read only when the block     *)
(* holds at least 0x14 bytes.                                              *)
(***************************************************************************)
ExtractJson(block) ==
  IF Len(block) < GlbHeaderSize THEN JNone
  ELSE LET json_length == read_uint32(block, JsonLengthOffset)
           json_end == GlbHeaderSize + json_length
       IN  IF json_end > Len(block) THEN JNone
           ELSE json_loads(Strip(clean_json_string(
                  Slice(block, GlbHeaderSize, json_end))))

extract_json_from_glb(glb_bytes) ==
  CHOOSE v \in {ExtractJson(block) : block \in {glb_bytes}} : TRUE

\* "if json_obj:": Python's truth value of a decoded value
Truthy(v) ==
  CASE v.t = "none" -> FALSE
    [] v.t = "int" -> v.n # 0
    [] v.t = "str" -> v.s # <<>>
    [] v.t = "obj" -> DOMAIN v.m # {}


\* bytes.hex(): two lowercase hexadecimal digits per byte
HexDigit(n) == IF n < 10 THEN 48 + n ELSE 87 + n
Hex(bytes) ==
  [k \in 1..(2 * Len(bytes)) |->
     IF k % 2 = 1 THEN HexDigit(bytes[(k + 1) \div 2] \div 16)
     ELSE HexDigit(bytes[k \div 2] % 16)]

(***************************************************************************)
(* The state of one call of process_bgl_file.  inp names the input case    *)
(* the buffer was built from; emitted, tag_log, decoded and entry_log are  *)
(* histories of what the call did and are never read by the actions.       *)
(***************************************************************************)
VARIABLES inp, data, pc, record_count, offset, rec_i, model_data_offsets,
          mdl_pos, json_count, subrec_offset, subrec_size, objects_read,
          bytes_read, guid, model_data_size, mdl_bytes, i, chunk_size, j,
          glb_index, emitted, tag_log, decoded, entry_log

vars == <<inp, data, pc, record_count, offset, rec_i, model_data_offsets,
          mdl_pos, json_count, subrec_offset, subrec_size, objects_read,
          bytes_read, guid, model_data_size, mdl_bytes, i, chunk_size, j,
          glb_index, emitted, tag_log, decoded, entry_log>>

headerVars == <<record_count, offset, rec_i, model_data_offsets>>
modelVars == <<mdl_pos, subrec_offset, subrec_size>>
entryVars == <<objects_read, bytes_read, guid, model_data_size, mdl_bytes>>
chunkVars == <<i, chunk_size>>
blockVars == <<j, glb_index>>
outVars == <<json_count, emitted>>
logVars == <<tag_log, decoded, entry_log>>

AllCanRead(buf, offs) == \A o \in offs : CanRead(buf, o)

\* ---- lines 83-96: the header checks and the record count
OpenPre ==
  pc = "start" /\ Len(data) >= HeaderSize /\ validate_bgl_header(data)
OpenReads == {RecordCountOffset}

RejectArchive ==
  /\ pc = "start"
  /\ Len(data) < HeaderSize \/ ~validate_bgl_header(data)
  /\ pc' = "done"
  /\ UNCHANGED <<inp, data, headerVars, modelVars, entryVars, chunkVars,
                 blockVars, outVars, logVars>>

Open ==
  /\ OpenPre
  /\ AllCanRead(data, OpenReads)
  /\ record_count' = read_uint32(data, RecordCountOffset)
  /\ offset' = HeaderSize
  /\ rec_i' = 0
  /\ model_data_offsets' = <<>>
  /\ pc' = "records"
  /\ UNCHANGED <<inp, data, modelVars, entryVars, chunkVars, blockVars,
                 outVars, logVars>>

\* ---- lines 100-111: one record descriptor per iteration
RecordPre ==
  pc = "records" /\ rec_i < record_count /\ offset + RecordStride <= Len(data)
RecordReads == {offset, offset + 12, offset + 16}

ReadRecord ==
  /\ RecordPre
  /\ AllCanRead(data, RecordReads)
  /\ model_data_offsets' =
       IF read_uint32(data, offset) = ModelDataType
       THEN Append(model_data_offsets, read_uint32(data, offset + 12))
       ELSE model_data_offsets
  /\ offset' = offset + RecordStride
  /\ rec_i' = rec_i + 1
  /\ UNCHANGED <<inp, data, pc, record_count, modelVars, entryVars, chunkVars,
                 blockVars, outVars, logVars>>

\* the loop ends at record_count, or breaks at a descriptor past the buffer
EndRecords ==
  /\ pc = "records"
  /\ rec_i >= record_count \/ offset + RecordStride > Len(data)
  /\ pc' = "models"
  /\ mdl_pos' = 1
  /\ UNCHANGED <<inp, data, headerVars, subrec_offset, subrec_size, entryVars,
                 chunkVars, blockVars, outVars, logVars>>

\* ---- lines 117-126: one ModelData record per iteration
mdl_offset == model_data_offsets[mdl_pos]

ModelFits == mdl_offset + ModelHeaderCheck <= Len(data)

ModelPre ==
  pc = "models" /\ mdl_pos <= Len(model_data_offsets) /\ ModelFits
ModelReads == {mdl_offset + 8, mdl_offset + 12}

SkipModel ==
  /\ pc = "models"
  /\ mdl_pos <= Len(model_data_offsets)
  /\ ~ModelFits
  /\ mdl_pos' = mdl_pos + 1
  /\ UNCHANGED <<inp, data, pc, headerVars, subrec_offset, subrec_size,
                 entryVars, chunkVars, blockVars, outVars, logVars>>

OpenModel ==
  /\ ModelPre
  /\ AllCanRead(data, ModelReads)
  /\ subrec_offset' = read_uint32(data, mdl_offset + 8)
  /\ subrec_size' = read_uint32(data, mdl_offset + 12)
  /\ objects_read' = 0
  /\ bytes_read' = 0
  /\ entry_log' = <<>>
  /\ pc' = "entries"
  /\ UNCHANGED <<inp, data, headerVars, mdl_pos, guid, model_data_size,
                 mdl_bytes, chunkVars, blockVars, outVars, tag_log, decoded>>

\* line 215: return json_count
Finish ==
  /\ pc = "models"
  /\ mdl_pos > Len(model_data_offsets)
  /\ pc' = "done"
  /\ UNCHANGED <<inp, data, headerVars, modelVars, entryVars, chunkVars,
                 blockVars, outVars, logVars>>

\* ---- lines 128-154, 212-213: one object entry per iteration
obj_offset == subrec_offset + EntryStride * objects_read

EntryPre ==
  pc = "entries" /\ bytes_read < subrec_size
  /\ obj_offset + EntryStride <= Len(data)
EntryReads == {obj_offset + 16, obj_offset + 20}

start_model_data_offset == read_uint32(data, obj_offset + 16)
entry_size == read_uint32(data, obj_offset + 20)
model_offset == subrec_offset + start_model_data_offset
EntryFits == model_offset + entry_size <= Len(data)
entry_bytes == Slice(data, model_offset, model_offset + entry_size)
IsRiff(bytes) == Len(bytes) >= 4 /\ Slice(bytes, 0, 4) = RIFF

EntryRead(outcome) == [at |-> obj_offset, size |-> entry_size, outcome |-> outcome]

\* the loop ends at the declared size, or breaks at a descriptor past the buffer
EndEntries ==
  /\ pc = "entries"
  /\ bytes_read >= subrec_size \/ obj_offset + EntryStride > Len(data)
  /\ pc' = "models"
  /\ mdl_pos' = mdl_pos + 1
  /\ UNCHANGED <<inp, data, headerVars, subrec_offset, subrec_size, entryVars,
                 chunkVars, blockVars, outVars, logVars>>

\* lines 143-146
EntryOutOfBounds ==
  /\ EntryPre
  /\ AllCanRead(data, EntryReads)
  /\ ~EntryFits
  /\ bytes_read' = bytes_read + entry_size + EntryStride
  /\ objects_read' = objects_read + 1
  /\ entry_log' = Append(entry_log, EntryRead("out_of_bounds"))
  /\ UNCHANGED <<inp, data, pc, headerVars, modelVars, guid, model_data_size,
                 mdl_bytes, chunkVars, blockVars, outVars, tag_log, decoded>>

\* the skip of lines 152-154 without objects_read += 1
EntryNotRiffNoAdvance ==
  /\ EntryPre
  /\ AllCanRead(data, EntryReads)
  /\ EntryFits
  /\ ~IsRiff(entry_bytes)
  /\ bytes_read' = bytes_read + entry_size + EntryStride
  /\ entry_log' = Append(entry_log, EntryRead("not_riff"))
  /\ UNCHANGED <<inp, data, pc, headerVars, modelVars, objects_read, guid,
                 model_data_size, mdl_bytes, chunkVars, blockVars, outVars,
                 tag_log, decoded>>

\* lines 148-154
EntryNotRiff ==
  /\ EntryPre
  /\ AllCanRead(data, EntryReads)
  /\ EntryFits
  /\ ~IsRiff(entry_bytes)
  /\ bytes_read' = bytes_read + entry_size + EntryStride
  /\ objects_read' = objects_read + 1
  /\ entry_log' = Append(entry_log, EntryRead("not_riff"))
  /\ UNCHANGED <<inp, data, pc, headerVars, modelVars, guid, model_data_size,
                 mdl_bytes, chunkVars, blockVars, outVars, tag_log, decoded>>

\* lines 135-157: the entry holds a chunk stream; the tag scan starts at 8
EntryOpen ==
  /\ EntryPre
  /\ AllCanRead(data, EntryReads)
  /\ EntryFits
  /\ IsRiff(entry_bytes)
  /\ guid' = Hex(Slice(data, obj_offset, obj_offset + 16))
  /\ model_data_size' = entry_size
  /\ mdl_bytes' = entry_bytes
  /\ i' = 8
  /\ pc' = "tags"
  /\ entry_log' = Append(entry_log, EntryRead("scanned"))
  /\ tag_log' = <<>>
  /\ decoded' = <<>>
  /\ UNCHANGED <<inp, data, headerVars, modelVars, objects_read, bytes_read,
                 chunk_size, blockVars, outVars>>

\* ---- lines 158-165, 208-213: one tag per iteration
chunk_id == Slice(mdl_bytes, i, i + 4)
TagLoopCond == i < Len(mdl_bytes) - 4

TagPre ==
  pc = "tags" /\ TagLoopCond /\ chunk_id = GLBD /\ i + 8 <= Len(mdl_bytes)
TagReads == {i + 4}

\* line 210 alone
TagMismatch ==
  /\ pc = "tags"
  /\ TagLoopCond
  /\ chunk_id # GLBD
  /\ i' = i + 4
  /\ tag_log' = Append(tag_log, [pos |-> i, match |-> FALSE, size |-> 0])
  /\ UNCHANGED <<inp, data, pc, headerVars, modelVars, entryVars, chunk_size,
                 blockVars, outVars, decoded, entry_log>>

\* lines 161-169
TagMatch ==
  /\ TagPre
  /\ AllCanRead(mdl_bytes, TagReads)
  /\ chunk_size' = read_uint32(mdl_bytes, i + 4)
  /\ j' = i + 8
  /\ glb_index' = 0
  /\ pc' = "blocks"
  /\ tag_log' = Append(tag_log,
                  [pos |-> i, match |-> TRUE, size |-> read_uint32(mdl_bytes, i + 4)])
  /\ UNCHANGED <<inp, data, headerVars, modelVars, entryVars, i, outVars,
                 decoded, entry_log>>

\* the scan ends at len - 4, or breaks at a matching tag whose header is cut
\* (lines 162-163); lines 212-213 then count the entry
EndTags ==
  /\ pc = "tags"
  /\ ~TagLoopCond \/ (chunk_id = GLBD /\ i + 8 > Len(mdl_bytes))
  /\ bytes_read' = bytes_read + model_data_size + EntryStride
  /\ objects_read' = objects_read + 1
  /\ pc' = "entries"
  /\ UNCHANGED <<inp, data, headerVars, modelVars, guid, model_data_size,
                 mdl_bytes, chunkVars, blockVars, outVars, logVars>>

\* ---- lines 171-206: one scene block per iteration
BlockBound == Min(i + 8 + chunk_size, Len(mdl_bytes))
BlockLoopCond == j < BlockBound /\ j + 8 <= Len(mdl_bytes)
sig == Slice(mdl_bytes, j, j + 4)

BlockPre == pc = "blocks" /\ BlockLoopCond /\ sig = GLBSig
BlockReads == {j + 4}

glb_size == read_uint32(mdl_bytes, j + 4)
glb_start == j + 8
glb_end == glb_start + glb_size
\* the bounds check of line 182 left out
BlockFitsAlways == TRUE

\* line 182, negated
BlockFits == glb_end <= Len(mdl_bytes)
glb_bytes == Slice(mdl_bytes, glb_start, glb_end)
DecodeReads == IF Len(glb_bytes) >= GlbHeaderSize THEN {JsonLengthOffset} ELSE {}

\* lines 205-206
BlockMismatch ==
  /\ pc = "blocks"
  /\ BlockLoopCond
  /\ sig # GLBSig
  /\ j' = j + 4
  /\ UNCHANGED <<inp, data, pc, headerVars, modelVars, entryVars, chunkVars,
                 glb_index, outVars, logVars>>

\* lines 182-185
BlockOutOfBounds ==
  /\ BlockPre
  /\ AllCanRead(mdl_bytes, BlockReads)
  /\ ~BlockFits
  /\ j' = j + 4
  /\ UNCHANGED <<inp, data, pc, headerVars, modelVars, entryVars, chunkVars,
                 glb_index, outVars, logVars>>

\* lines 187-204: decode the block; a truthy result is written and counted
json_obj == extract_json_from_glb(glb_bytes)

DecodeBlock ==
  /\ BlockPre
  /\ AllCanRead(mdl_bytes, BlockReads)
  /\ BlockFits
  /\ AllCanRead(glb_bytes, DecodeReads)
  /\ emitted' =
       IF Truthy(json_obj)
       THEN Append(emitted,
              [rec |-> mdl_pos, obj |-> objects_read, guid |-> guid,
               ordinal |-> glb_index, value |-> json_obj,
               chunk |-> i, block |-> j])
       ELSE emitted
  /\ json_count' = IF Truthy(json_obj) THEN json_count + 1 ELSE json_count
  /\ glb_index' = IF Truthy(json_obj) THEN glb_index + 1 ELSE glb_index
  /\ decoded' = Append(decoded,
       [chunk |-> i, block |-> j, start |-> glb_start, end |-> glb_end,
        bound |-> BlockBound, len |-> Len(glb_bytes), result |-> json_obj,
        ordinal |-> glb_index])
  /\ j' = j + 8 + glb_size
  /\ UNCHANGED <<inp, data, pc, headerVars, modelVars, entryVars, chunkVars,
                 tag_log, entry_log>>

\* a chunk skipped by its size and its 8-byte header
ChunkAdvanceSkipHeader(c, s) == c + s + 8

\* line 210 missing after a matching chunk: i += chunk_size alone
ChunkAdvanceNoStep(c, s) == c + s

\* lines 208 and 210: i += chunk_size, then i += 4
ChunkAdvance(c, s) == c + s + 4

\* the block loop ends at its bound, or breaks where no 8-byte header fits
EndBlocks ==
  /\ pc = "blocks"
  /\ ~BlockLoopCond
  /\ i' = ChunkAdvance(i, chunk_size)
  /\ pc' = "tags"
  /\ UNCHANGED <<inp, data, headerVars, modelVars, entryVars, chunk_size,
                 blockVars, outVars, logVars>>

(***************************************************************************)
(* struct.error: the step about to run reads a field that is not wholly    *)
(* inside its buffer.  Nothing in process_bgl_file catches it.             *)
(***************************************************************************)
ReadFails ==
  \/ OpenPre /\ ~AllCanRead(data, OpenReads)
  \/ RecordPre /\ ~AllCanRead(data, RecordReads)
  \/ ModelPre /\ ~AllCanRead(data, ModelReads)
  \/ EntryPre /\ ~AllCanRead(data, EntryReads)
  \/ TagPre /\ ~AllCanRead(mdl_bytes, TagReads)
  \/ BlockPre /\ ~AllCanRead(mdl_bytes, BlockReads)
  \/ BlockPre /\ AllCanRead(mdl_bytes, BlockReads) /\ BlockFits
       /\ ~AllCanRead(glb_bytes, DecodeReads)

StructError ==
  /\ ReadFails
  /\ pc' = "raised"
  /\ UNCHANGED <<inp, data, headerVars, modelVars, entryVars, chunkVars,
                 blockVars, outVars, logVars>>

(***************************************************************************)
(* The input buffers.  An archive is laid out as the code reads it: the    *)
(* 0x38-byte header, the 0x14-byte record descriptors, and per ModelData   *)
(* record a 16-byte record header, the table of 24-byte object entries and *)
(* the entries' payloads.  Every field of a case is a kind drawn from a    *)
(* small set; the bounds limit how many records, entries, chunks and       *)
(* blocks a case holds.                                                    *)
(***************************************************************************)
MaxRecords == 2
MaxEntries == 2
MaxChunks == 2
MaxBlocks == 2

U32(n) ==
  <<n % 256, (n \div 256) % 256, (n \div 65536) % 256, (n \div 16777216) % 256>>

Zeros(n) == [k \in 1..n |-> 0]

RECURSIVE Concat(_)
Concat(ss) == IF ss = <<>> THEN <<>> ELSE Head(ss) \o Concat(Tail(ss))

SeqsUpTo(S, n) == UNION {[1..k -> S] : k \in 0..n}

\* ---- scene blocks: "GLB\0", u32 size, then the block's bytes
BlockKinds ==
  {"obj", "obj2", "empty", "utf8", "padded", "badjson", "badlen", "short",
   "zero", "oversize", "junk"}

\* the JSON region of a block
JsonText(kind) ==
  CASE kind = "obj" -> <<123, 34, 97, 34, 58, 49, 125>>
    [] kind = "obj2" -> <<123, 34, 98, 34, 58, 50, 125>>
    [] kind = "empty" -> <<123, 125>>
    [] kind = "utf8" -> <<123, 34, 97, 34, 58, 34, 195, 169, 34, 125>>
    [] kind = "padded" -> <<0, 123, 34, 97, 34, 58, 49, 125, 10>>
    [] kind = "badjson" -> <<123, 34, 97, 34>>
    [] kind = "badlen" -> <<123, 34, 97, 34, 58, 49, 125>>

\* the blocks whose JSON region holds a valid compact JSON object, and the
\* object each one encodes ("utf8" holds the string U+00E9 in UTF-8)
ValidKinds == {"obj", "obj2", "empty", "utf8"}
Original(kind) ==
  CASE kind = "obj" -> JObj(<<97>> :> JInt(1))
    [] kind = "obj2" -> JObj(<<98>> :> JInt(2))
    [] kind = "empty" -> JObj(<<>>)
    [] kind = "utf8" -> JObj(<<97>> :> JStr(<<233>>))

\* magic, version, total length, JSON length at 0x0C, chunk type, JSON at 0x14
Glb(text, json_length) ==
  <<103, 108, 84, 70>> \o U32(2) \o U32(GlbHeaderSize + Len(text))
    \o U32(json_length) \o <<74, 83, 79, 78>> \o text

Block(kind) ==
  CASE kind = "junk" -> Zeros(4)
    [] kind = "zero" -> GLBSig \o U32(0)
    [] kind = "short" -> GLBSig \o U32(8) \o Zeros(8)
    [] kind = "oversize" -> GLBSig \o U32(4096)
    [] kind = "badlen" ->
         LET g == Glb(JsonText(kind), Len(JsonText(kind)) + 8)
         IN  GLBSig \o U32(Len(g)) \o g
    [] OTHER ->
         LET g == Glb(JsonText(kind), Len(JsonText(kind)))
         IN  GLBSig \o U32(Len(g)) \o g

Blocks(kinds) == Concat([k \in 1..Len(kinds) |-> Block(kinds[k])])

\* ---- chunks: 4-byte tag, u32 size, payload
ChunkKinds ==
  {"glbd", "glbd_mixed", "glbd_zero", "glbd_under", "glbd_over", "glbd_cut",
   "junk8", "junk6"}

JUNK == <<74, 85, 78, 75>>

Chunk(c) ==
  LET payload == Blocks(c.blocks) IN
  CASE c.kind \in {"glbd", "glbd_mixed"} -> GLBD \o U32(Len(payload)) \o payload
    [] c.kind = "glbd_zero" -> GLBD \o U32(0)
    [] c.kind = "glbd_under" -> GLBD \o U32(16) \o payload
    [] c.kind = "glbd_over" -> GLBD \o U32(Len(payload) + 4096) \o payload
    [] c.kind = "glbd_cut" -> GLBD \o <<1>>
    [] c.kind = "junk8" -> JUNK \o U32(8) \o Zeros(8)
    [] c.kind = "junk6" -> JUNK \o U32(6) \o Zeros(6)

\* "RIFF", 4 bytes, then the chunks back to back from byte 8
Stream(chunks) ==
  LET body == Concat([k \in 1..Len(chunks) |-> Chunk(chunks[k])])
  IN  RIFF \o U32(Len(body)) \o body

\* ---- object entries: 16-byte identifier, u32 relative offset, u32 size
EntryKinds == {"riff", "oob", "noriff"}

Payload(e) ==
  CASE e.kind = "riff" -> Stream(e.chunks)
    [] e.kind = "noriff" -> JUNK \o Zeros(4)
    [] e.kind = "oob" -> <<>>

DeclaredSize(e) == IF e.kind = "oob" THEN 16 ELSE Len(Payload(e))

RECURSIVE SumSizes(_, _)
\* the byte counter after the first n entries: declared size + 24 each
SumSizes(entries, n) ==
  IF n = 0 THEN 0
  ELSE SumSizes(entries, n - 1) + DeclaredSize(entries[n]) + EntryStride

RECURSIVE PayloadsBefore(_, _)
PayloadsBefore(entries, n) ==
  IF n = 0 THEN 0
  ELSE PayloadsBefore(entries, n - 1) + Len(Payload(entries[n]))

EntryGuid(r, k) == <<r, k, 171, 205>> \o Zeros(12)

Descriptor(entries, r, k) ==
  EntryGuid(r, k)
    \o U32(IF entries[k].kind = "oob" THEN 16777215
           ELSE EntryStride * Len(entries) + PayloadsBefore(entries, k - 1))
    \o U32(DeclaredSize(entries[k]))

\* ---- ModelData regions: 8 bytes, u32 table offset, u32 table size
SizeModes == {"exact", "zero", "over"}

SubrecSize(rec) ==
  CASE rec.size = "exact" -> SumSizes(rec.entries, Len(rec.entries))
    [] rec.size = "zero" -> 0
    [] rec.size = "over" -> SumSizes(rec.entries, Len(rec.entries)) + 4096

Region(rec, r, base) ==
  IF rec.kind # "model" THEN <<>>
  ELSE Zeros(8) \o U32(base + 16) \o U32(SubrecSize(rec))
         \o Concat([k \in 1..Len(rec.entries) |-> Descriptor(rec.entries, r, k)])
         \o Concat([k \in 1..Len(rec.entries) |-> Payload(rec.entries[k])])

\* a region's length does not depend on where it lies
RegionLen(rec) == Len(Region(rec, 0, 0))

RECURSIVE RegionsBefore(_, _)
RegionsBefore(recs, n) ==
  IF n = 0 THEN 0 ELSE RegionsBefore(recs, n - 1) + RegionLen(recs[n])

\* ---- the archive: header, record descriptors, regions
RecordKinds == {"model", "other", "far", "edge", "edge2"}
HeaderKinds ==
  {"ok", "magic1", "magic2", "short", "empty", "count_zero", "count_over"}

RegionBase(recs, r) ==
  HeaderSize + RecordStride * Len(recs) + RegionsBefore(recs, r - 1)

TotalLen(recs) == RegionBase(recs, Len(recs) + 1)

RecordDescriptor(recs, r) ==
  LET kind == recs[r].kind IN
  U32(IF kind = "other" THEN 1 ELSE ModelDataType) \o Zeros(8)
    \o U32(CASE kind = "model" -> RegionBase(recs, r)
             [] kind = "other" -> 0
             [] kind = "far" -> TotalLen(recs) + 100
             [] kind = "edge" -> TotalLen(recs) - 12
             [] kind = "edge2" -> TotalLen(recs) - 14)
    \o U32(RegionLen(recs[r]))

Header(hdr, recs) ==
  (IF hdr = "magic1" THEN <<1, 2, 146, 26>> ELSE Magic1) \o Zeros(12)
    \o (IF hdr = "magic2" THEN <<3, 24, 5, 9>> ELSE Magic2)
    \o U32(CASE hdr = "count_zero" -> 0
             [] hdr = "count_over" -> Len(recs) + 1
             [] OTHER -> Len(recs))
    \o Zeros(32)

Archive(in) ==
  LET recs == in.recs
      full == Header(in.hdr, recs)
                \o Concat([r \in 1..Len(recs) |-> RecordDescriptor(recs, r)])
                \o Concat([r \in 1..Len(recs) |->
                             Region(recs[r], r, RegionBase(recs, r))])
  IN  CASE in.hdr = "empty" -> <<>>
        [] in.hdr = "short" -> SubSeq(full, 1, HeaderSize - 1)
        [] OTHER -> full

\* ---- the cases
StdChunk(kind) ==
  [kind |-> kind,
   blocks |-> IF kind = "glbd_mixed" THEN <<"zero", "oversize", "obj">>
              ELSE <<"obj">>]
StdEntry(kind) == [kind |-> kind, chunks |-> <<StdChunk("glbd")>>]
StdRecord(kind) ==
  [kind |-> kind, size |-> "exact", entries |-> <<StdEntry("riff")>>]
OneRecord(size, entries) == [kind |-> "model", size |-> size, entries |-> entries]

HeaderCases == {[hdr |-> h, recs |-> <<StdRecord("model")>>] : h \in HeaderKinds}

RecordCases ==
  {[hdr |-> "ok", recs |-> [k \in 1..Len(ks) |-> StdRecord(ks[k])]] :
     ks \in SeqsUpTo(RecordKinds, MaxRecords)}

EntryCases ==
  {[hdr |-> "ok",
    recs |-> <<OneRecord(m, [k \in 1..Len(ks) |-> StdEntry(ks[k])])>>] :
     m \in SizeModes, ks \in SeqsUpTo(EntryKinds, MaxEntries)}

ChunkCases ==
  {[hdr |-> "ok",
    recs |-> <<OneRecord("exact",
                 <<[kind |-> "riff",
                    chunks |-> [k \in 1..Len(ks) |-> StdChunk(ks[k])]]>>)>>] :
     ks \in SeqsUpTo(ChunkKinds, MaxChunks)}

BlockCases ==
  {[hdr |-> "ok",
    recs |-> <<OneRecord("exact",
                 <<[kind |-> "riff",
                    chunks |-> <<[kind |-> "glbd", blocks |-> ks]>>]>>)>>] :
     ks \in SeqsUpTo(BlockKinds, MaxBlocks)}

Inputs == HeaderCases \cup RecordCases \cup EntryCases \cup ChunkCases \cup BlockCases

Init ==
  /\ inp \in Inputs
  /\ data = Archive(inp)
  /\ pc = "start"
  /\ record_count = 0
  /\ offset = 0
  /\ rec_i = 0
  /\ model_data_offsets = <<>>
  /\ mdl_pos = 1
  /\ json_count = 0
  /\ subrec_offset = 0
  /\ subrec_size = 0
  /\ objects_read = 0
  /\ bytes_read = 0
  /\ guid = <<>>
  /\ model_data_size = 0
  /\ mdl_bytes = <<>>
  /\ i = 0
  /\ chunk_size = 0
  /\ j = 0
  /\ glb_index = 0
  /\ emitted = <<>>
  /\ tag_log = <<>>
  /\ decoded = <<>>
  /\ entry_log = <<>>

Next ==
  \/ RejectArchive
  \/ Open
  \/ ReadRecord
  \/ EndRecords
  \/ SkipModel
  \/ OpenModel
  \/ Finish
  \/ EndEntries
  \/ EntryOutOfBounds
  \/ EntryNotRiff
  \/ EntryOpen
  \/ TagMismatch
  \/ TagMatch
  \/ EndTags
  \/ BlockMismatch
  \/ BlockOutOfBounds
  \/ DecodeBlock
  \/ EndBlocks
  \/ StructError

Spec == Init /\ [][Next]_vars

\* the call runs to its end: a step that can be taken is taken
FairSpec == Spec /\ WF_vars(Next)

(***************************************************************************)
(* The properties.  A case is named by inp; the helpers below read the     *)
(* layout of the case a property is about.                                 *)
(***************************************************************************)
Terminated == pc \in {"done", "raised"}

HeaderRejected ==
  \/ Len(data) < HeaderSize
  \/ Slice(data, 0, 4) # Magic1
  \/ Slice(data, 16, 20) # Magic2

\* one accepted archive with one ModelData record of one chunk-stream entry
SingleEntryCase ==
  /\ inp.hdr = "ok"
  /\ Len(inp.recs) = 1
  /\ inp.recs[1].kind = "model"
  /\ inp.recs[1].size = "exact"
  /\ Len(inp.recs[1].entries) = 1
  /\ inp.recs[1].entries[1].kind = "riff"

CaseChunks == inp.recs[1].entries[1].chunks

\* the entry's stream is one interesting chunk holding back-to-back blocks
SingleChunkCase ==
  SingleEntryCase /\ Len(CaseChunks) = 1 /\ CaseChunks[1].kind = "glbd"

CaseBlocks == CaseChunks[1].blocks

RECURSIVE ChunkPos(_, _)
\* where the k-th chunk of a stream starts
ChunkPos(chunks, k) ==
  IF k = 1 THEN 8 ELSE ChunkPos(chunks, k - 1) + Len(Chunk(chunks[k - 1]))

RECURSIVE BlockPos(_, _)
\* where the k-th block of the first chunk's payload starts
BlockPos(blocks, k) ==
  IF k = 1 THEN 16 ELSE BlockPos(blocks, k - 1) + Len(Block(blocks[k - 1]))

RECURSIVE LogBytes(_, _)
LogBytes(log, n) ==
  IF n = 0 THEN 0 ELSE LogBytes(log, n - 1) + log[n].size + EntryStride

\* how many of the first n payloads were emitted for the entry of payload p
EarlierOfEntry(p) ==
  Cardinality({q \in 1..(p - 1) :
                 emitted[q].rec = emitted[p].rec /\ emitted[q].obj = emitted[p].obj})

\* ---------------------------------------------------------------- C1
\* C1: no step of process_bgl_file reads a u32 that is not wholly inside the
\* buffer it is read from, so the call never raises: it returns a count.
C1_ReadsInsideBuffer == ~ReadFails /\ pc # "raised"

\* ---------------------------------------------------------------- C2
\* C2: within one object entry the k-th emitted payload carries ordinal k-1,
\* counted across all interesting chunks of the entry, so no two payloads of
\* one entry share the identity (archive name, object id, ordinal).
C2_OrdinalPerEntry ==
  \A p \in 1..Len(emitted) : emitted[p].ordinal = EarlierOfEntry(p)

\* ---------------------------------------------------------------- C3
\* C3: an interesting chunk of n back-to-back in-bounds blocks, each holding a
\* valid compact JSON object, yields exactly n payloads, in block order, with
\* ordinals 0..n-1, each equal to the object its block encodes, and the
\* returned count rises by n.
C3Case ==
  /\ SingleChunkCase
  /\ Len(CaseBlocks) >= 1
  /\ \A k \in 1..Len(CaseBlocks) : CaseBlocks[k] \in ValidKinds

C3_ValidBlocksRoundTrip ==
  (pc = "done" /\ C3Case) =>
    /\ json_count = Len(CaseBlocks)
    /\ Len(emitted) = Len(CaseBlocks)
    /\ \A k \in 1..Len(emitted) :
         /\ emitted[k].ordinal = k - 1
         /\ emitted[k].block = BlockPos(CaseBlocks, k)
         /\ emitted[k].value = Original(CaseBlocks[k])

\* ---------------------------------------------------------------- C4
\* C4: a buffer shorter than 0x38 bytes, or whose bytes [0:4] or [0x10:0x14]
\* differ from the magic sequences, returns 0: no record is enumerated, no
\* entry is read and no payload is emitted.
C4_RejectedArchiveYieldsNothing ==
  HeaderRejected =>
    /\ pc \in {"start", "done"}
    /\ json_count = 0
    /\ emitted = <<>>
    /\ rec_i = 0
    /\ model_data_offsets = <<>>
    /\ entry_log = <<>>

C4_Witness ==
  /\ pc = "done"
  /\ Len(data) >= HeaderSize
  /\ Slice(data, 0, 4) = Magic1
  /\ Slice(data, 16, 20) # Magic2
  /\ read_uint32(data, RecordCountOffset) > 0

\* ---------------------------------------------------------------- C5
\* C5: an in-bounds block whose JSON length overruns the block, or that is
\* shorter than 0x14 bytes, decodes to nothing: nothing is emitted for it, the
\* ordinal stays, the scan goes on at cursor + 8 + block_size, and every later
\* valid block of the chunk is still decoded and emitted.
FailKinds == {"badlen", "short", "zero"}

C5Case ==
  /\ SingleChunkCase
  /\ \A k \in 1..Len(CaseBlocks) : CaseBlocks[k] \in FailKinds \cup ValidKinds
  /\ \E k \in 1..Len(CaseBlocks) : CaseBlocks[k] \in FailKinds

C5_ScanContinuesPastBadBlock ==
  (pc = "done" /\ C5Case) =>
    /\ Len(decoded) = Len(CaseBlocks)
    /\ \A k \in 1..Len(decoded) :
         /\ decoded[k].block = BlockPos(CaseBlocks, k)
         /\ CaseBlocks[k] \in FailKinds =>
              /\ decoded[k].result = JNone
              /\ \A p \in 1..Len(emitted) : emitted[p].block # decoded[k].block
              /\ k < Len(decoded) => decoded[k + 1].ordinal = decoded[k].ordinal
         /\ (CaseBlocks[k] \in ValidKinds
               /\ \E q \in 1..(k - 1) : CaseBlocks[q] \in FailKinds) =>
              \E p \in 1..Len(emitted) : emitted[p].block = decoded[k].block

\* ---------------------------------------------------------------- C6
\* C6: in a canonical chunk stream every chunk with the interesting tag has
\* its payload scanned for blocks, whatever the sizes of the chunks before it.
CanonicalChunkKinds == {"glbd", "glbd_mixed", "glbd_zero", "junk8", "junk6"}

C6Case ==
  /\ SingleEntryCase
  /\ \A k \in 1..Len(CaseChunks) : CaseChunks[k].kind \in CanonicalChunkKinds

C6_EveryInterestingChunkScanned ==
  (pc = "done" /\ C6Case) =>
    \A k \in 1..Len(CaseChunks) :
      CaseChunks[k].kind \in {"glbd", "glbd_mixed", "glbd_zero"} =>
        \E t \in 1..Len(tag_log) :
          tag_log[t].match /\ tag_log[t].pos = ChunkPos(CaseChunks, k)

\* ---------------------------------------------------------------- C7
\* C7 as claimed: a block is handed to the decoder only if its end does not
\* exceed min(chunk payload start + chunk_size, end of the stream), so every
\* decoded block lies wholly inside the declared payload of its chunk.
C7_DecodedInsideChunk ==
  \A k \in 1..Len(decoded) : decoded[k].end <= decoded[k].bound

\* C7 as amended: a block is handed to the decoder only if it starts below
\* that bound and its end does not exceed the end of the stream; a block
\* whose end exceeds the end of the stream is not decoded and the cursor
\* advances 4.  Every decoded block lies wholly inside the stream.
C7_DecodedInsideStream ==
  /\ [](\A k \in 1..Len(decoded) :
          /\ decoded[k].block < decoded[k].bound
          /\ decoded[k].end <= Len(mdl_bytes)
          /\ decoded[k].len = decoded[k].end - decoded[k].start)
  /\ [][(pc = "blocks" /\ BlockLoopCond /\ sig = GLBSig
          /\ j + 8 + read_uint32(mdl_bytes, j + 4) > Len(mdl_bytes))
        => (j' = j + 4 /\ decoded' = decoded /\ emitted' = emitted)]_vars

C7_Witness ==
  \E k \in 1..Len(decoded) :
    /\ decoded[k].end > decoded[k].bound
    /\ decoded[k].end <= Len(mdl_bytes)
    /\ Truthy(decoded[k].result)

\* ---------------------------------------------------------------- C8
\* the position the tag scan examines after the t-th one
NextTagPos(t) ==
  IF t < Len(tag_log) THEN tag_log[t + 1].pos ELSE i

\* C8 as claimed: the scan starts at 8; after a matching tag at c with
\* declared size s the next tag is examined at c + s, after a tag that does
\* not match at c + 4.
C8_NextTagAtSize ==
  pc = "tags" =>
    /\ tag_log = <<>> => i = 8
    /\ \A t \in 1..Len(tag_log) :
         NextTagPos(t) = IF tag_log[t].match
                         THEN tag_log[t].pos + tag_log[t].size
                         ELSE tag_log[t].pos + 4

\* C8 as amended: after a matching tag at c with declared size s the next
\* tag is examined at c + s + 4.
C8_NextTagAtSizePlus4 ==
  pc = "tags" =>
    /\ tag_log = <<>> => i = 8
    /\ \A t \in 1..Len(tag_log) :
         NextTagPos(t) = IF tag_log[t].match
                         THEN tag_log[t].pos + tag_log[t].size + 4
                         ELSE tag_log[t].pos + 4

C8_Witness ==
  /\ pc = "tags"
  /\ TagLoopCond
  /\ \E t \in 1..Len(tag_log) : tag_log[t].match /\ tag_log[t].size > 0
  /\ \E t \in 1..Len(tag_log) : ~tag_log[t].match

\* ---------------------------------------------------------------- C9
\* C9: every entry read, whatever its outcome, advances the entry index by 1
\* and the byte counter by its declared size + 24, so the k-th entry is read
\* at subrecord base + 24 * k; the loop leaves a record only when the counter
\* has reached the declared size or the next descriptor does not fit.
C9_EntryStride ==
  /\ pc \in {"entries", "tags", "blocks"} =>
       /\ \A k \in 1..Len(entry_log) :
            entry_log[k].at = subrec_offset + EntryStride * (k - 1)
       /\ LET done == IF pc = "entries" THEN Len(entry_log)
                      ELSE Len(entry_log) - 1
          IN  /\ objects_read = done
              /\ bytes_read = LogBytes(entry_log, done)
  /\ pc \in {"models", "done"} =>
       \/ bytes_read >= subrec_size
       \/ obj_offset + EntryStride > Len(data)

C9_Witness ==
  /\ pc = "done"
  /\ Len(entry_log) = 2
  /\ entry_log[1].outcome \in {"out_of_bounds", "not_riff"}
  /\ entry_log[2].outcome = "scanned"
  /\ \E p \in 1..Len(emitted) : emitted[p].obj = 1

\* ---------------------------------------------------------------- C10
\* C10: the scan terminates: an entry-loop iteration raises the byte counter
\* by at least 24, a tag-loop iteration raises its cursor by at least 4 and a
\* block-loop iteration raises its cursor by at least 4, whatever the sizes.
C10_Terminates ==
  /\ [][/\ (pc = "entries" /\ pc' = "entries") =>
             bytes_read' >= bytes_read + EntryStride
        /\ (pc = "tags" /\ pc' = "entries") =>
             bytes_read' >= bytes_read + EntryStride
        /\ (pc = "tags" /\ pc' = "tags") => i' >= i + 4
        /\ (pc = "blocks" /\ pc' = "tags") => i' >= i + 4
        /\ (pc = "blocks" /\ pc' = "blocks") => j' >= j + 4]_vars
  /\ <>Terminated

C10_Witness ==
  /\ pc = "done"
  /\ \E t \in 1..Len(tag_log) : tag_log[t].match /\ tag_log[t].size = 0
  /\ \E k \in 1..Len(decoded) : decoded[k].end = decoded[k].start

====
